---- MODULE Spec2Model ----
(***************************************************************************)
(* A model of the wis2box-api notification spine:                          *)
(*   - DataHandler (wis2box_api/wis2box/handle.py): aggregation of a batch *)
(*     of transform output items and dispatch of data notifications;       *)
(*   - the csv2bufr and publish_data processes that feed it;               *)
(*   - the /sns relay (wis2box_api/sns_listener.py).                       *)
(* Every entry point is one action: a call is synchronous and keeps its    *)
(* accumulators in locals, so a state is "the call that ran, its input,    *)
(* what it returned or raised, and the outbound traffic it produced".      *)
(* Python values are modelled as follows: None is the string "None", a     *)
(* dict is a record of presence flags and values, a list is a sequence,    *)
(* an exception that leaves a function is status "raised" with its type.   *)
(***************************************************************************)
EXTENDS Integers, Sequences, FiniteSets, TLC

\* ------------------------------------------------------------------ bounds
\* longest batch handed to process_items
MaxItems == 2
\* broker publish attempts (counted per call) that may be made to fail
MaxFail == 1
\* most items the csv2bufr converter yields in one call
MaxCsvItems == 2
\* most entries of the Records array of an S3 event
MaxRecords == 2
\* items in each of two concurrent batches
MaxConcItems == 2

VARIABLES
    call,      \* the entry point that ran: "idle" before any call
    pi_req,    \* DataHandler.process_items: the handler's arguments and the batch
    dp_req,    \* DataPublishProcessor.execute: its input
    csv_req,   \* CSVPublishProcessor.execute: its input
    sns_req,   \* sns_listener: the request
    ret,       \* what process_items or a process returned or raised
    sns_ret,   \* what sns_listener returned or raised, with its outbound calls
    net,       \* outbound GET requests of a process, in order
    broker,    \* messages the broker accepted during the call, in order
    val,       \* station validation: what the loop did with each item, in order
    conc,      \* two process_items calls in progress: arguments, program
               \* counters, frames of local variables, results
    se         \* StorageEventProcessor.execute: its input and what it returned

vars == <<call, pi_req, dp_req, csv_req, sns_req, ret, sns_ret, net, broker, val,
          conc, se>>

\* ------------------------------------------------------- handle.py: data
DATA_OBJECT_MIMETYPES == {"bufr4", "grib2", "grib", "cap", "geojson"}

\* keys of an item that are not format payloads (handle.py line 130)
RESERVED_KEYS == {"_meta", "errors", "warnings"}

\* Python truthiness of a string-or-None value
Truthy(v) == v \notin {"None", "", "absent"}

NoResult == [present |-> FALSE, hasCode |-> FALSE, code |-> 0, hasMessage |-> FALSE]
ResultCode(c) == [present |-> TRUE, hasCode |-> TRUE, code |-> c, hasMessage |-> TRUE]

\* item['_meta'] as produced by a converter
OkMeta(wsi, res) ==
    [present |-> TRUE, hasProps |-> TRUE, hasId |-> TRUE, hasDatetime |-> TRUE,
     id |-> "ID", datetime |-> "T0", wsi |-> wsi, result |-> res]

NoMeta == [OkMeta("absent", NoResult) EXCEPT !.present = FALSE, !.hasProps = FALSE,
                                             !.hasId = FALSE, !.hasDatetime = FALSE]

\* _meta dicts that lack a key process_items subscripts
BrokenMetas ==
    { NoMeta,
      [OkMeta("absent", NoResult) EXCEPT !.hasProps = FALSE, !.hasDatetime = FALSE],
      [OkMeta("absent", NoResult) EXCEPT !.hasId = FALSE],
      [OkMeta("absent", NoResult) EXCEPT !.hasDatetime = FALSE],
      OkMeta("absent", [present |-> TRUE, hasCode |-> FALSE, code |-> 0, hasMessage |-> TRUE]),
      OkMeta("absent", [present |-> TRUE, hasCode |-> TRUE, code |-> 2, hasMessage |-> FALSE]) }

GoodMetas ==
    { OkMeta("absent", NoResult),
      OkMeta("0-20000-0-15015", ResultCode(1)),
      OkMeta("0-20000-0-15015", ResultCode(2)) }

Absent == [present |-> FALSE, list |-> <<>>]
Listed(l) == [present |-> TRUE, list |-> l]

Entry(f, v) == [fmt |-> f, val |-> v]

\* the payload entries of an item, in the dict's insertion order
DataShapes ==
    { <<>>,
      <<Entry("bufr4", "bytes")>>,
      <<Entry("bufr4", "None")>>,
      <<Entry("bufr4", "str")>>,
      <<Entry("bufr4", "bytes"), Entry("geojson", "bytes")>>,
      <<Entry("txt", "bytes")>>,
      <<Entry("geojson", "None"), Entry("txt", "bytes")>> }

MkItem(d, m, e, w) == [data |-> d, meta |-> m, errors |-> e, warnings |-> w]

Msg(kind, wsi, date, text) == [kind |-> kind, wsi |-> wsi, date |-> date, text |-> text]
InputError == Msg("input", "", "", "e1")
InputWarning == Msg("input", "", "", "w1")

\* the records a batch is drawn from
Items ==
    { MkItem(d, m, Listed(<<>>), Listed(<<>>)) : d \in DataShapes, m \in GoodMetas }
    \cup { MkItem(<<Entry("bufr4", "bytes")>>, m, Listed(<<>>), Listed(<<>>)) : m \in BrokenMetas }
    \cup { MkItem(<<>>, NoMeta, Listed(<<InputError>>), Listed(<<>>)),
           MkItem(<<>>, NoMeta, Absent, Listed(<<InputWarning>>)),
           MkItem(<<>>, NoMeta, Absent, Absent),
           MkItem(<<Entry("bufr4", "bytes")>>, OkMeta("absent", NoResult),
                  Listed(<<InputError>>), Absent),
           MkItem(<<Entry("bufr4", "bytes")>>, OkMeta("", NoResult),
                  Listed(<<>>), Listed(<<InputWarning>>)) }

Batches == UNION { [1..n -> Items] : n \in 0..MaxItems }

\* a channel as its pieces: "/" separators at the ends, the discovery prefix,
\* and the topic proper
Channels == { <<"/", "origin/a/wis2/", "csv-test/data", "/">>, <<"csv-test/data">> }

\* ------------------------------------------------- handle.py: DataHandler
RECURSIVE LStrip(_)
LStrip(s) == IF s # <<>> /\ Head(s) = "/" THEN LStrip(Tail(s)) ELSE s

RECURSIVE RStrip(_)
RStrip(s) == IF s # <<>> /\ s[Len(s)] = "/" THEN RStrip(SubSeq(s, 1, Len(s) - 1)) ELSE s

\* str.strip('/')
Strip(s) == RStrip(LStrip(s))

\* str.replace('origin/a/wis2/', '')
RemovePrefixPiece(s) == SelectSeq(s, LAMBDA t : t # "origin/a/wis2/")

\* the parameters DataHandler.__init__ declares besides self
DataHandlerParams == {"channel", "notify"}

\* a handler that notifies whatever it was told
DataHandler_AlwaysNotifies(channel, notify, kw) ==
    IF ~(kw \subseteq DataHandlerParams)
    THEN [ok |-> FALSE, exc |-> "TypeError", _notify |-> FALSE, _channel |-> <<>>]
    ELSE [ok |-> TRUE, exc |-> "none", _notify |-> TRUE,
          _channel |-> RemovePrefixPiece(Strip(channel))]

\* DataHandler(channel, notify, **kw): a keyword the signature does not declare
\* is a TypeError raised before the body runs
DataHandler(channel, notify, kw) ==
    IF ~(kw \subseteq DataHandlerParams)
    THEN [ok |-> FALSE, exc |-> "TypeError", _notify |-> FALSE, _channel |-> <<>>]
    ELSE [ok |-> TRUE, exc |-> "none", _notify |-> notify,
          _channel |-> RemovePrefixPiece(Strip(channel))]

\* base64.b64encode(data).decode()
B64Encode(data) == <<"b64", data>>

\* send_data_notification_request: the value it returns, whether publish.single
\* was invoked, and the message the broker accepted (if any).  `attempt` numbers
\* the publish.single invocations of the call; those in brokerFails raise.
send_data_notification_request(self, data, filename, attempt, brokerFails) ==
    IF data # "bytes"
    THEN [ret |-> "Error encoding data", attempted |-> FALSE, msgs |-> <<>>]
    ELSE LET msg == [EventName |-> "DataNotificationRequest",
                     filename |-> filename,
                     base64_encoded_data |-> B64Encode(data),
                     channel |-> self._channel]
         IN  IF attempt \in brokerFails
             THEN [ret |-> "Error publishing message", attempted |-> TRUE, msgs |-> <<>>]
             ELSE [ret |-> "success", attempted |-> TRUE,
                   msgs |-> <<[topic |-> "wis2box/requests", qos |-> 1,
                               retain |-> FALSE, payload |-> msg]>>]

\* a record counted for any payload key, recognized or not
IsDataItem_AnyKey(record) == Len(record.data) > 0

\* any(key in record for key in DATA_OBJECT_MIMETYPES)
IsDataItem(record) ==
    \E k \in 1..Len(record.data) : record.data[k].fmt \in DATA_OBJECT_MIMETYPES

\* first loop of process_items (lines 102-115): the data items (by position in
\* the batch), the count of converted records, the collected errors and warnings
RECURSIVE CollectRecords(_, _, _)
CollectRecords(output_items, i, acc) ==
    IF i > Len(output_items) THEN acc
    ELSE LET record == output_items[i]
             isData == IsDataItem(record)
         IN  CollectRecords(output_items, i + 1,
                 [data_items |-> IF isData THEN Append(acc.data_items, i) ELSE acc.data_items,
                  data_converted |-> IF isData THEN acc.data_converted + 1 ELSE acc.data_converted,
                  errors |-> IF record.errors.present
                             THEN acc.errors \o record.errors.list ELSE acc.errors,
                  warnings |-> IF record.warnings.present
                               THEN acc.warnings \o record.warnings.list ELSE acc.warnings])

Raise(acc, exc) == [acc EXCEPT !.raised = exc]

\* a null payload passed over without an error
NoDataErrors_None(wsi, data_date) == <<>>

\* lines 136-140: the error appended for a payload that is None
NoDataErrors(wsi, data_date) ==
    IF Truthy(wsi)
    THEN <<Msg("No data returned", wsi, data_date, "")>>
    ELSE <<Msg("No data returned", "(no WSI found)", data_date, "")>>

\* inner loop of process_items (lines 129-147) over item.items()
RECURSIVE PublishFormats(_, _, _, _, _, _, _)
PublishFormats(self, item, idx, k, wsi, acc, brokerFails) ==
    IF k > Len(item.data) THEN acc
    ELSE LET fmt == item.data[k].fmt
             the_data == item.data[k].val
         IN  IF fmt \in RESERVED_KEYS \/ fmt \notin DATA_OBJECT_MIMETYPES
             THEN PublishFormats(self, item, idx, k + 1, wsi, acc, brokerFails)
             ELSE IF the_data = "None"
             THEN PublishFormats(self, item, idx, k + 1, wsi,
                      [acc EXCEPT !.errors = @ \o NoDataErrors(wsi, item.meta.datetime)],
                      brokerFails)
             ELSE IF ~self._notify
             THEN PublishFormats(self, item, idx, k + 1, wsi, acc, brokerFails)
             ELSE LET filename == <<item.meta.id, fmt>>
                      r == send_data_notification_request(self, the_data, filename,
                                                          acc.attempts + 1, brokerFails)
                  IN  PublishFormats(self, item, idx, k + 1, wsi,
                          [acc EXCEPT !.sent = Append(@, [item |-> idx, fmt |-> fmt,
                                                          filename |-> filename, ret |-> r.ret]),
                                      !.broker = @ \o r.msgs,
                                      !.attempts = IF r.attempted THEN @ + 1 ELSE @],
                          brokerFails)

\* the pass with the test of the result code left out
PublishItem_NoCodeTest(self, item, idx, acc, brokerFails) ==
    LET m == item.meta IN
    IF ~m.present \/ ~m.hasProps \/ ~m.hasId \/ ~m.hasDatetime THEN Raise(acc, "KeyError")
    ELSE PublishFormats(self, item, idx, 1,
                        IF m.wsi = "absent" THEN "None" ELSE m.wsi, acc, brokerFails)

\* one pass of the second loop of process_items (lines 117-147); every
\* subscript of a missing key raises KeyError out of process_items
PublishItem(self, item, idx, acc, brokerFails) ==
    LET m == item.meta IN
    IF ~m.present \/ ~m.hasProps \/ ~m.hasId \/ ~m.hasDatetime THEN Raise(acc, "KeyError")
    ELSE IF m.result.present /\ ~m.result.hasCode THEN Raise(acc, "KeyError")
    ELSE IF m.result.present /\ m.result.code # 1
    THEN (IF ~m.result.hasMessage THEN Raise(acc, "KeyError") ELSE acc)
    ELSE PublishFormats(self, item, idx, 1,
                        IF m.wsi = "absent" THEN "None" ELSE m.wsi, acc, brokerFails)

RECURSIVE PublishItems(_, _, _, _, _, _)

\* the second loop left at the first send that did not return 'success'
PublishItems_StopAtFailedSend(self, output_items, data_items, j, acc, brokerFails) ==
    IF j > Len(data_items) \/ acc.raised # "none"
       \/ (\E n \in 1..Len(acc.sent) : acc.sent[n].ret # "success")
    THEN acc
    ELSE PublishItems(self, output_items, data_items, j + 1,
                      PublishItem(self, output_items[data_items[j]], data_items[j],
                                  acc, brokerFails),
                      brokerFails)

PublishItems(self, output_items, data_items, j, acc, brokerFails) ==
    IF j > Len(data_items) \/ acc.raised # "none" THEN acc
    ELSE PublishItems(self, output_items, data_items, j + 1,
                      PublishItem(self, output_items[data_items[j]], data_items[j],
                                  acc, brokerFails),
                      brokerFails)

\* the classification with the count left out of the first test
Classify_NoCountCheck(data_converted, errors, warnings) ==
    IF errors = <<>> /\ warnings = <<>> THEN "success"
    ELSE IF data_converted = 0 THEN "failure"
    ELSE "partial success"

\* the classification of the batch (lines 149-154)
Classify(data_converted, errors, warnings) ==
    IF data_converted > 0 /\ errors = <<>> /\ warnings = <<>> THEN "success"
    ELSE IF data_converted = 0 THEN "failure"
    ELSE "partial success"

\* the outputs dict: `keys` are the keys it holds
NoOutputs == [keys |-> {}, result |-> "none", transformed |-> 0, published |-> 0,
              data_items |-> <<>>, errors |-> <<>>, warnings |-> <<>>]

OutputKeys == {"result", "messages transformed", "messages published",
               "data_items", "errors", "warnings"}

\* DataHandler.process_items (lines 79-165)
process_items(self, output_items, brokerFails) ==
    LET first == CollectRecords(output_items, 1,
                     [data_items |-> <<>>, data_converted |-> 0,
                      errors |-> <<>>, warnings |-> <<>>])
        data_published == 0
        second == PublishItems(self, output_items, first.data_items, 1,
                     [raised |-> "none", errors |-> first.errors, sent |-> <<>>,
                      broker |-> <<>>, attempts |-> 0],
                     brokerFails)
    IN  IF second.raised # "none"
        THEN [status |-> "raised", exc |-> second.raised, mimetype |-> "none",
              outputs |-> NoOutputs, sent |-> second.sent, broker |-> second.broker]
        ELSE [status |-> "returned", exc |-> "none", mimetype |-> "application/json",
              outputs |-> [keys |-> OutputKeys,
                           result |-> Classify(first.data_converted, second.errors,
                                               first.warnings),
                           transformed |-> first.data_converted,
                           published |-> data_published,
                           data_items |-> <<>>,
                           errors |-> second.errors,
                           warnings |-> first.warnings],
              sent |-> second.sent, broker |-> second.broker]

\* no call has run
NoCall == [status |-> "idle", exc |-> "none", mimetype |-> "none",
           outputs |-> NoOutputs, sent |-> <<>>, broker |-> <<>>]

\* handle_error (lines 46-62)
handle_error(error) ==
    [status |-> "returned", exc |-> "none", mimetype |-> "application/json",
     outputs |-> [keys |-> {"result", "errors", "warnings"}, result |-> "failure",
                  transformed |-> 0, published |-> 0, data_items |-> <<>>,
                  errors |-> <<Msg("error", "", "", error)>>, warnings |-> <<>>],
     sent |-> <<>>, broker |-> <<>>]

\* an exception that leaves the process
Raised(exc) ==
    [status |-> "raised", exc |-> exc, mimetype |-> "none", outputs |-> NoOutputs,
     sent |-> <<>>, broker |-> <<>>]

\* ------------------------------------ plugins/process: channel resolution
\* the answers of GET {WIS2BOX_DOCKER_API_URL}/collections/discovery-metadata/items
Lookups == {"found", "not found", "status 500", "raise"}

\* universal_data.py lines 131-153 and csv2bufr.py lines 136-158: the channel
\* the process goes on with, or the handle_error result it returns
ResolveChannel(data) ==
    IF ~data.hasNotify THEN [ok |-> FALSE, ret |-> handle_error("KeyError notify"),
                             channel |-> <<>>, gets |-> <<>>]
    ELSE IF data.metadata_id = "None" /\ data.notify
    THEN [ok |-> FALSE, channel |-> <<>>, gets |-> <<>>,
          ret |-> handle_error("metadata_id must be provided if notify is True")]
    ELSE IF data.hasChannel
    THEN [ok |-> TRUE, ret |-> NoCall, channel |-> data.channel, gets |-> <<>>]
    ELSE LET gets == <<"discovery-metadata/items">> IN
         IF data.lookup = "raise"
         THEN [ok |-> FALSE, ret |-> handle_error("Failed to load metadata"),
               channel |-> <<>>, gets |-> gets]
         ELSE IF data.lookup = "found" /\ data.metadata_id # "None"
         THEN [ok |-> TRUE, ret |-> NoCall,
               channel |-> <<"origin/a/wis2/", "csv-test/data">>, gets |-> gets]
         ELSE [ok |-> FALSE, ret |-> handle_error("No metadata found"),
               channel |-> <<>>, gets |-> gets]

\* ------------------------------------------------------ universal_data.py
\* a filename as its dot-separated parts
Filenames == { <<"SALT31_EYVI_201020", "txt">>, <<"my_data", "bin">>,
               <<"obs", "bufr4">>, <<"README">> }

\* filename.split('.')[-1]
FileType(filename) == filename[Len(filename)]

\* filename.rsplit('.', 1)[0]
FileId(filename) ==
    IF Len(filename) = 1 THEN filename ELSE SubSeq(filename, 1, Len(filename) - 1)

\* lines 160-188: the output item, or the error the except clause reports
BuildOutputItem(data) ==
    IF data.filename = <<>> THEN [ok |-> FALSE, item |-> <<>>, err |-> "KeyError filename"]
    ELSE IF data.data \notin {"str", "bytes"}
    THEN [ok |-> FALSE, item |-> <<>>, err |-> "data must be a string or bytes"]
    ELSE IF ~data.datetimeOk
    THEN [ok |-> FALSE, item |-> <<>>, err |-> "ParserError datetime"]
    ELSE [ok |-> TRUE, err |-> "none",
          item |-> MkItem(<<Entry(FileType(data.filename), "bytes")>>,
                          [OkMeta("absent", NoResult) EXCEPT !.id = FileId(data.filename)],
                          Listed(<<>>), Listed(<<>>))]

\* DataPublishProcessor.execute (lines 120-195)
DataPublishProcessor_execute(data) ==
    LET ch == ResolveChannel(data) IN
    IF ~ch.ok THEN [ret |-> ch.ret, gets |-> ch.gets]
    ELSE LET data_handler == DataHandler(ch.channel, data.notify, {"metadata_id"}) IN
         IF ~data_handler.ok THEN [ret |-> Raised(data_handler.exc), gets |-> ch.gets]
         ELSE LET built == BuildOutputItem(data) IN
              IF ~built.ok THEN [ret |-> handle_error(built.err), gets |-> ch.gets]
              ELSE [ret |-> process_items(data_handler, <<built.item>>, data.brokerFails),
                    gets |-> ch.gets]

\* ------------------------------------------------------------ csv2bufr.py
\* WIS2BOX_OBSERVATION_DISTANCE_THRESHOLD, in meters
DistanceThreshold == 3

KnownWsi == "0-20000-0-15015"
UnknownWsi == "0-20000-0-99999"

\* a GeoJSON geometry (or None); positions lie on one line, a meter apart
NoGeometry == [kind |-> "None", pos |-> 0]
NoCoordinates == [kind |-> "nocoords", pos |-> 0]
Point(p) == [kind |-> "point", pos |-> p]

\* Stations(channel=...): the registry of the channel, wsi -> geometry
Registries == { [w \in {KnownWsi} |-> g] : g \in {Point(0), NoGeometry, NoCoordinates} }
check_valid_wsi(stations, wsi) == wsi \in DOMAIN stations
get_geometry(stations, wsi) == stations[wsi]

\* geopy.distance.geodesic(a, b).meters
geodesic(a, b) == IF a.pos >= b.pos THEN a.pos - b.pos ELSE b.pos - a.pos

\* item['_meta']['result'] of a converter item
CsvResult(c, errs, warns) ==
    [present |-> TRUE, hasCode |-> TRUE, code |-> c, hasMessage |-> TRUE,
     errors |-> errs, warnings |-> warns]
CsvNoResult ==
    [present |-> FALSE, hasCode |-> FALSE, code |-> 0, hasMessage |-> FALSE,
     errors |-> Absent, warnings |-> Absent]

CsvMeta(wsi, geo, res) ==
    [present |-> TRUE, hasProps |-> TRUE, hasId |-> TRUE, hasDatetime |-> TRUE,
     id |-> "ID", datetime |-> "T0", wsi |-> wsi, result |-> res, geometry |-> geo]

CsvItem(d, m) == [data |-> d, meta |-> m]

Bufr4 == <<Entry("bufr4", "bytes")>>
Code1 == CsvResult(1, Absent, Absent)

\* the items the converter may yield
CsvItems ==
    { CsvItem(Bufr4, CsvMeta(KnownWsi, Point(0), Code1)),
      CsvItem(Bufr4, CsvMeta(KnownWsi, Point(DistanceThreshold), Code1)),
      CsvItem(Bufr4, CsvMeta(KnownWsi, Point(DistanceThreshold + 1), Code1)),
      CsvItem(Bufr4, CsvMeta(KnownWsi, NoGeometry, Code1)),
      CsvItem(Bufr4, CsvMeta(KnownWsi, NoCoordinates, Code1)),
      CsvItem(Bufr4, CsvMeta(UnknownWsi, Point(0), Code1)),
      CsvItem(Bufr4, CsvMeta("absent", Point(DistanceThreshold + 1), CsvNoResult)),
      CsvItem(Bufr4, CsvMeta("absent", NoGeometry,
                             CsvResult(1, Absent, Listed(<<InputWarning>>)))),
      CsvItem(Bufr4, CsvMeta(KnownWsi, Point(0),
                             CsvResult(1, Absent, Listed(<<InputWarning>>)))),
      CsvItem(<<Entry("bufr4", "None")>>,
              CsvMeta(KnownWsi, Point(0), CsvResult(2, Listed(<<InputError>>), Absent))),
      CsvItem(Bufr4, [CsvMeta("absent", NoGeometry, CsvNoResult) EXCEPT !.hasProps = FALSE]) }

\* the payload left in the item
DelBufr4_Keep(d) == d

\* del item['bufr4']
DelBufr4(d) == SelectSeq(d, LAMBDA e : e.fmt # "bufr4")

DistanceWarning(wsi, d) ==
    [kind |-> "distance", wsi |-> wsi, date |-> "", text |-> "", meters |-> d]

\* the branch of 'if wsi and not stations.check_valid_wsi(wsi)' / 'elif wsi'
\* taken with every registry a wsi is looked up in
StationBranch_NoWsiTest(wsi, stations) ==
    IF ~check_valid_wsi(stations, wsi)
    THEN [branch |-> "unknown station", calls |-> <<"check_valid_wsi">>]
    ELSE [branch |-> "known station", calls |-> <<"check_valid_wsi">>]

\* 'if wsi and not stations.check_valid_wsi(wsi)' / 'elif wsi' (lines 205, 211):
\* the branch taken and the registry calls made to choose it
StationBranch(wsi, stations) ==
    IF ~Truthy(wsi) THEN [branch |-> "no station", calls |-> <<>>]
    ELSE IF ~check_valid_wsi(stations, wsi)
    THEN [branch |-> "unknown station", calls |-> <<"check_valid_wsi">>]
    ELSE [branch |-> "known station", calls |-> <<"check_valid_wsi">>]

\* the distance test with the threshold itself counted as too far
TooFar_AtThreshold(distance_meters) == distance_meters >= DistanceThreshold

\* distance_meters > WIS2BOX_OBSERVATION_DISTANCE_THRESHOLD (line 224)
TooFar(distance_meters) == distance_meters > DistanceThreshold

\* the body of the loop of CSVPublishProcessor.execute (lines 191-234) for one
\* item: the item as appended to output_items, or the exception raised, and
\* the calls of the registry and of geodesic made for it
ValidateItem(item, stations) ==
    LET m == item.meta
        fail(exc, calls) ==
            [raised |-> TRUE, exc |-> exc, item |-> <<>>, calls |-> calls]
        done(d, errs, warns, calls) ==
            [raised |-> FALSE, exc |-> "none",
             item |-> [data |-> d, meta |-> m, errors |-> Listed(errs),
                       warnings |-> Listed(warns)],
             calls |-> calls]
    IN
    IF ~m.present \/ ~m.hasProps THEN fail("KeyError", <<>>)
    ELSE
    LET wsi == IF m.wsi = "absent" THEN "None" ELSE m.wsi
        errors == IF m.result.present /\ m.result.errors.present
                  THEN m.result.errors.list ELSE <<>>
        warnings == IF m.result.present /\ m.result.warnings.present
                    THEN m.result.warnings.list ELSE <<>>
        station == StationBranch(wsi, stations)
    IN
    IF station.branch = "unknown station"
    THEN done(DelBufr4(item.data), errors,
              Append(warnings, Msg("Station not in station list; skipping", wsi, "", "")),
              station.calls)
    ELSE IF station.branch = "known station"
    THEN LET geo_station == get_geometry(stations, wsi)
             geo_data == m.geometry
             looked == Append(station.calls, "get_geometry")
             measured == Append(looked, "geodesic")
         IN  \* the list handed to all() is built in full: .get on None raises
             IF geo_data.kind = "None" \/ geo_station.kind = "None"
             THEN fail("AttributeError", looked)
             ELSE IF geo_data.kind = "nocoords" \/ geo_station.kind = "nocoords"
             THEN done(item.data, errors, warnings, looked)
             ELSE LET distance_meters == geodesic(geo_station, geo_data) IN
                  IF TooFar(distance_meters)
                  THEN done(DelBufr4(item.data), errors,
                            Append(warnings, DistanceWarning(wsi, distance_meters)),
                            measured)
                  ELSE done(item.data, errors, warnings, measured)
    ELSE done(item.data, errors, warnings, station.calls)

\* the item appended when the loop is left by an exception (lines 235-241)
DummyItem == MkItem(<<>>, NoMeta, Listed(<<Msg("Error processing item", "", "", "")>>),
                    Listed(<<>>))

\* lines 188-241: the try block holds the whole loop, so the first exception,
\* of the converter or of the loop body, ends the iteration
RECURSIVE ValidateItems(_, _, _, _, _)
ValidateItems(bufr_generator, genRaises, i, stations, output_items) ==
    IF i > Len(bufr_generator)
    THEN (IF genRaises THEN Append(output_items, DummyItem) ELSE output_items)
    ELSE LET v == ValidateItem(bufr_generator[i], stations) IN
         IF v.raised THEN Append(output_items, DummyItem)
         ELSE ValidateItems(bufr_generator, genRaises, i + 1, stations,
                            Append(output_items, v.item))

\* what the loop of lines 190-234 did with each item it took, in order: it
\* takes no item after the one whose pass raised
RECURSIVE ValidationLog(_, _, _)
ValidationLog(bufr_generator, i, stations) ==
    IF i > Len(bufr_generator) THEN <<>>
    ELSE LET v == ValidateItem(bufr_generator[i], stations) IN
         IF v.raised THEN <<v>>
         ELSE <<v>> \o ValidationLog(bufr_generator, i + 1, stations)

\* CSVPublishProcessor.execute (lines 125-243)
CSVPublishProcessor_execute(data) ==
    LET ch == ResolveChannel(data) IN
    IF ~ch.ok THEN [ret |-> ch.ret, gets |-> ch.gets]
    ELSE LET data_handler == DataHandler(ch.channel, data.notify, {"metadata_id"}) IN
         IF ~data_handler.ok THEN [ret |-> Raised(data_handler.exc), gets |-> ch.gets]
         ELSE IF ~data.transformOk
         THEN [ret |-> handle_error("csv2bufr raised Exception"), gets |-> ch.gets]
         ELSE LET output_items == ValidateItems(data.items, data.genRaises, 1,
                                                data.stations, <<>>)
              IN  [ret |-> process_items(data_handler, output_items, data.brokerFails),
                   gets |-> ch.gets]

\* --------------------------------------------------------- sns_listener.py
STORAGE_INCOMING == "wis2box-incoming"
STORAGE_PUBLIC == "wis2box-public"

\* a URL as its pieces
AwsCertUrl == <<"https://sns.", "eu-west-1", ".amazonaws.com/SimpleNotificationService.pem">>
LookalikeCertUrl == <<"https://sns.", "evil.example/x?", ".amazonaws.com/SimpleNotificationService.pem">>
HttpCertUrl == <<"http://sns.", "eu-west-1", ".amazonaws.com/SimpleNotificationService.pem">>
OtherCertUrl == <<"https://evil.example/", "cert.pem">>

\* the test of the certificate URL with the prefix left out
CertUrlAllowed_SuffixOnly(cert_url) ==
    cert_url[Len(cert_url)] = ".amazonaws.com/SimpleNotificationService.pem"

\* cert_url.startswith('https://sns.') and
\* cert_url.endswith('.amazonaws.com/SimpleNotificationService.pem')
CertUrlAllowed(cert_url) ==
    /\ Head(cert_url) = "https://sns."
    /\ cert_url[Len(cert_url)] = ".amazonaws.com/SimpleNotificationService.pem"

\* RSAPublicKey.verify(signature, data, padding, algorithm) of the cryptography
\* package: returns None when the signature is that of the data, and raises
\* InvalidSignature when it is not.  "accepted" stands for a signature on
\* which the key's verify call returns a true value: cryptography has no such
\* signature and no request of Spec carries one; SpecRelay draws it to
\* examine the steps of the handler that lie behind the verification
pubkey_verify(signature) ==
    IF signature = "valid" THEN [raised |-> FALSE, value |-> "None"]
    ELSE IF signature = "accepted" THEN [raised |-> FALSE, value |-> "True"]
    ELSE [raised |-> TRUE, value |-> "InvalidSignature"]

Ev(what, arg) == [ev |-> what, arg |-> arg]

\* verify_sns_signature (lines 61-86): the string returned or the exception
\* raised, and the outbound requests made
verify_sns_signature(msg) ==
    LET raise(exc, tr) == [raised |-> TRUE, exc |-> exc, ret |-> "none", trace |-> tr]
        return(v, tr) == [raised |-> FALSE, exc |-> "none", ret |-> v, trace |-> tr]
        fetched == <<Ev("GET", msg.SigningCertURL)>>
    IN
    IF msg.SigningCertURL = <<>> THEN raise("KeyError", <<>>)
    ELSE IF msg.Signature = "absent" THEN raise("KeyError", <<>>)
    ELSE IF ~CertUrlAllowed(msg.SigningCertURL) THEN return("Invalid SigningCertURL", <<>>)
    ELSE IF msg.cert = "fetch fails" THEN raise("RequestException", fetched)
    ELSE IF msg.cert = "not a certificate" THEN raise("ValueError", fetched)
    ELSE IF msg.Signature = "not base64" THEN raise("binascii.Error", fetched)
    ELSE IF ~msg.hasSignedFields THEN raise("KeyError", fetched)
    ELSE LET v == pubkey_verify(msg.Signature)
             tr == Append(fetched, Ev("verify", <<msg.Signature>>))
         IN  IF v.raised THEN raise(v.value, tr)
             ELSE IF Truthy(v.value) THEN return("Signature verified", tr)
             ELSE return("Signature verification failed", tr)

\* str.replace(old, new) on a string given as its pieces
RECURSIVE ReplacePiece(_, _, _)
ReplacePiece(str, old, new) ==
    IF str = <<>> THEN <<>>
    ELSE (IF Head(str) = old THEN new ELSE <<Head(str)>>)
         \o ReplacePiece(Tail(str), old, new)

\* event_name.replace('ObjectCreated', 's3:ObjectCreated')
\*           .replace('ObjectRemoved', 's3:ObjectRemoved')
MapEventName(event_name) ==
    ReplacePiece(ReplacePiece(event_name, "ObjectCreated", <<"s3:", "ObjectCreated">>),
                 "ObjectRemoved", <<"s3:", "ObjectRemoved">>)

\* object_info.get('key').replace('%3A', ':')
DecodeKey(key) == ReplacePiece(key, "%3A", <<":">>)

\* an S3 event record; <<>> stands for a missing eventName or object key and
\* "None" for a missing bucket name
S3Record(source, name, bucket, key) ==
    [eventSource |-> source, eventName |-> name, bucket |-> bucket, key |-> key]

Records ==
    { S3Record("aws:s3", <<"ObjectCreated", ":Put">>, STORAGE_INCOMING, <<"a", "%3A", "b">>),
      S3Record("aws:s3", <<"ObjectRemoved", ":Delete">>, STORAGE_PUBLIC, <<"c">>),
      S3Record("aws:s3", <<"ObjectCreated", ":Put">>, "other-bucket", <<"d">>),
      S3Record("aws:sqs", <<"ObjectCreated", ":Put">>, STORAGE_INCOMING, <<"e">>),
      S3Record("aws:s3", <<"ObjectRestore", ":Post">>, STORAGE_INCOMING, <<"g">>),
      S3Record("aws:s3", <<"ObjectCreated", ":Put">>, STORAGE_INCOMING, <<>>),
      S3Record("aws:s3", <<>>, STORAGE_INCOMING, <<"f">>) }

NoStorageMsg == [EventName |-> <<>>, Key |-> <<>>]

\* the loop over aws_s3_event['Records'] (lines 125-141)
RECURSIVE ScanRecords(_, _, _)
ScanRecords(records, i, acc) ==
    IF i > Len(records) \/ acc.raised THEN acc
    ELSE LET record == records[i] IN
         IF record.eventSource # "aws:s3" THEN ScanRecords(records, i + 1, acc)
         ELSE IF record.key = <<>> \/ record.eventName = <<>>
         THEN [acc EXCEPT !.raised = TRUE]
         ELSE ScanRecords(records, i + 1,
                  [raised |-> FALSE, found |-> TRUE, bucket_name |-> record.bucket,
                   wis2box_storage_msg |->
                       [EventName |-> MapEventName(record.eventName),
                        Key |-> <<record.bucket, "/">> \o DecodeKey(record.key)]])

NoSnsRet == [status |-> "idle", exc |-> "none", code |-> 0, key |-> "none",
             text |-> "none", trace |-> <<>>, broker |-> <<>>]

\* an exception leaves the view function
SnsRaise(exc, tr) ==
    [status |-> "raised", exc |-> exc, code |-> 0, key |-> "none",
     text |-> "none", trace |-> tr, broker |-> <<>>]

\* return {key: text}, code
SnsReturn(key, text, code, tr, msgs) ==
    [status |-> "returned", exc |-> "none", code |-> code, key |-> key,
     text |-> text, trace |-> tr, broker |-> msgs]

\* the branch answering without the GET of the SubscribeURL
ConfirmSubscription_NoGet(data) ==
    IF data.SubscribeURL # <<>>
    THEN SnsReturn("status", "subscription confirmed", 200, <<>>, <<>>)
    ELSE SnsReturn("error", "Missing SubscribeURL", 400, <<>>, <<>>)

\* the SubscriptionConfirmation branch (lines 104-113)
ConfirmSubscription(data) ==
    IF data.SubscribeURL # <<>>
    THEN LET tr == <<Ev("GET", data.SubscribeURL)>> IN
         IF ~data.getOk THEN SnsRaise("RequestException", tr)
         ELSE SnsReturn("status", "subscription confirmed", 200, tr, <<>>)
    ELSE SnsReturn("error", "Missing SubscribeURL", 400, <<>>, <<>>)

\* the allow-list test letting every bucket through
BucketAllowed_Any(bucket_name) == TRUE

\* bucket_name in [STORAGE_INCOMING, STORAGE_PUBLIC] (line 146)
BucketAllowed(bucket_name) == bucket_name \in {STORAGE_INCOMING, STORAGE_PUBLIC}

\* the publish step answering a failed publish with 400
PublishStorage_Fail400(wis2box_storage_msg, publishOk, tr) ==
    LET msg == [topic |-> "wis2box/storage", qos |-> 1, retain |-> FALSE,
                payload |-> wis2box_storage_msg]
        tr2 == Append(tr, Ev("publish", <<"wis2box/storage">>))
    IN  IF ~publishOk
        THEN SnsReturn("error", "Error publishing on internal broker", 400, tr2, <<>>)
        ELSE SnsReturn("status", "Published S3 event on internal broker", 200, tr2,
                       <<msg>>)

\* the publish step with a failed publish tried once more
PublishStorage_Retry(wis2box_storage_msg, publishOk, tr) ==
    LET msg == [topic |-> "wis2box/storage", qos |-> 1, retain |-> FALSE,
                payload |-> wis2box_storage_msg]
        tr2 == Append(tr, Ev("publish", <<"wis2box/storage">>))
    IN  IF ~publishOk
        THEN SnsReturn("error", "Error publishing on internal broker", 500,
                       Append(tr2, Ev("publish", <<"wis2box/storage">>)), <<>>)
        ELSE SnsReturn("status", "Published S3 event on internal broker", 200, tr2,
                       <<msg>>)

\* the publish on the internal broker and the two returns that follow it
\* (lines 151-169)
PublishStorage(wis2box_storage_msg, publishOk, tr) ==
    LET msg == [topic |-> "wis2box/storage", qos |-> 1, retain |-> FALSE,
                payload |-> wis2box_storage_msg]
        tr2 == Append(tr, Ev("publish", <<"wis2box/storage">>))
    IN  IF ~publishOk
        THEN SnsReturn("error", "Error publishing on internal broker", 500, tr2, <<>>)
        ELSE SnsReturn("status", "Published S3 event on internal broker", 200, tr2,
                       <<msg>>)

\* sns_listener (lines 89-171): the (body, status) pair returned or the
\* exception raised, the outbound calls in order, the message published
sns_listener(request) ==
    LET raise(exc, tr) == SnsRaise(exc, tr)
        return(key, text, code, tr, msgs) == SnsReturn(key, text, code, tr, msgs)
        data == request
    IN
    IF data.body = "malformed" THEN return("error", "Error parsing JSON", 400, <<>>, <<>>)
    ELSE IF data.body = "empty" THEN return("error", "Missing SNS Type", 400, <<>>, <<>>)
    ELSE IF data.body = "number" THEN raise("TypeError", <<>>)
    ELSE IF data.Type = "absent" THEN return("error", "Missing SNS Type", 400, <<>>, <<>>)
    ELSE IF data.Type = "SubscriptionConfirmation"
    THEN ConfirmSubscription(data)
    ELSE IF data.Type = "Notification"
    THEN LET v == verify_sns_signature(data) IN
         IF v.raised THEN raise(v.exc, v.trace)
         ELSE IF v.ret # "Signature verified"
         THEN return("error", "SNS signature verification failed", 400, v.trace, <<>>)
         ELSE LET tr == Append(v.trace, Ev("parse", <<"Message">>)) IN
              IF data.Message = "absent" THEN raise("TypeError", tr)
              ELSE IF data.Message = "not json" THEN raise("JSONDecodeError", tr)
              ELSE IF data.Message = "no records"
              THEN return("error", "No S3 records found", 400, tr, <<>>)
              ELSE LET scan == ScanRecords(data.Records, 1,
                                   [raised |-> FALSE, found |-> FALSE,
                                    bucket_name |-> "unbound",
                                    wis2box_storage_msg |-> NoStorageMsg])
                   IN  IF scan.raised THEN raise("AttributeError", tr)
                       ELSE IF ~scan.found
                       THEN return("error", "No valid S3 records found", 400, tr, <<>>)
                       ELSE IF ~BucketAllowed(scan.bucket_name)
                       THEN return("error", "Invalid bucket", 400, tr, <<>>)
                       ELSE PublishStorage(scan.wis2box_storage_msg, data.publishOk, tr)
    ELSE return("error", "Unhandled message type", 400, <<>>, <<>>)

\* sns_listener of app.py (lines 43-69), the view function of /oapi/sns
app_sns_listener(request) ==
    LET data == request IN
    IF data.body = "malformed" THEN SnsReturn("error", "Invalid JSON", 400, <<>>, <<>>)
    ELSE IF data.body = "empty" THEN SnsReturn("error", "Missing SNS Type", 400, <<>>, <<>>)
    ELSE IF data.body = "number" THEN SnsRaise("TypeError", <<>>)
    ELSE IF data.Type = "absent"
    THEN SnsReturn("error", "Missing SNS Type", 400, <<>>, <<>>)
    ELSE IF data.Type = "SubscriptionConfirmation"
    THEN (IF data.SubscribeURL # <<>>
          THEN LET tr == <<Ev("GET", data.SubscribeURL)>> IN
               IF ~data.getOk THEN SnsRaise("RequestException", tr)
               ELSE SnsReturn("status", "subscription confirmed", 200, tr, <<>>)
          ELSE SnsReturn("error", "Missing SubscribeURL", 400, <<>>, <<>>))
    ELSE IF data.Type = "Notification"
    THEN LET tr == <<Ev("parse", <<"Message">>)>> IN
         IF data.Message = "absent" THEN SnsRaise("TypeError", tr)
         ELSE IF data.Message = "not json" THEN SnsRaise("JSONDecodeError", tr)
         ELSE SnsReturn("status", "notification received", 200, tr, <<>>)
    ELSE SnsReturn("error", "Unhandled message type", 400, <<>>, <<>>)

\* ---------------------------------------------------------------- state
NoPiReq == [channel |-> <<>>, notify |-> FALSE, items |-> <<>>, brokerFails |-> {}]

\* the inputs both processes read first: notify, metadata_id, channel, and
\* the answer of the metadata lookup made when no channel is given
Front(hasNotify, notify, metadata_id, hasChannel, channel, lookup) ==
    [hasNotify |-> hasNotify, notify |-> notify, metadata_id |-> metadata_id,
     hasChannel |-> hasChannel, channel |-> channel, lookup |-> lookup]

MetadataIds == {"None", "urn:wmo:md:test"}

Fronts ==
    { Front(FALSE, FALSE, "None", FALSE, <<>>, "unused") }
    \cup { Front(TRUE, n, m, TRUE, c, "unused") :
             n \in BOOLEAN, m \in MetadataIds, c \in Channels }
    \cup { Front(TRUE, n, m, FALSE, <<>>, l) :
             n \in BOOLEAN, m \in MetadataIds, l \in Lookups }

\* the inputs of the integration tests: notify, a metadata_id and a channel
TestFront == Front(TRUE, TRUE, "urn:wmo:md:test", TRUE, <<"csv-test/data">>, "unused")

DpRest(filename, data, datetimeOk, brokerFails) ==
    [filename |-> filename, data |-> data, datetimeOk |-> datetimeOk,
     brokerFails |-> brokerFails]

DpInputs ==
    { f @@ DpRest(<<"obs", "bufr4">>, "bytes", TRUE, {}) : f \in Fronts }
    \cup { TestFront @@ DpRest(fn, d, t, b) :
             fn \in Filenames \cup {<<>>}, d \in {"str", "bytes", "int"},
             t \in BOOLEAN, b \in SUBSET (1..MaxFail) }

CsvBatches == UNION { [1..n -> CsvItems] : n \in 0..MaxCsvItems }

CsvRest(transformOk, items, genRaises, stations, brokerFails) ==
    [transformOk |-> transformOk, items |-> items, genRaises |-> genRaises,
     stations |-> stations, brokerFails |-> brokerFails]

CsvInputs ==
    { f @@ CsvRest(TRUE, <<>>, FALSE, [w \in {KnownWsi} |-> Point(0)], {}) : f \in Fronts }
    \cup { TestFront @@ CsvRest(t, i, g, s, b) :
             t \in BOOLEAN, i \in CsvBatches, g \in BOOLEAN, s \in Registries,
             b \in SUBSET (1..MaxFail) }

NoProcessReq == Front(FALSE, FALSE, "None", FALSE, <<>>, "unused")

\* a well-formed Notification about nothing
SnsDefault ==
    [body |-> "object", Type |-> "Notification", SubscribeURL |-> <<>>, getOk |-> TRUE,
     SigningCertURL |-> AwsCertUrl, Signature |-> "valid", cert |-> "pem",
     hasSignedFields |-> TRUE, Message |-> "records", Records |-> <<>>,
     publishOk |-> TRUE]

RecordSeqs == UNION { [1..n -> Records] : n \in 0..MaxRecords }

Messages ==
    { [kind |-> k, recs |-> <<>>] : k \in {"absent", "not json", "no records"} }
    \cup { [kind |-> "records", recs |-> r] : r \in RecordSeqs }

SnsRequests ==
    { [SnsDefault EXCEPT !.body = b] : b \in {"malformed", "empty", "number"} }
    \cup { [SnsDefault EXCEPT !.Type = t] : t \in {"absent", "UnsubscribeConfirmation"} }
    \cup { [SnsDefault EXCEPT !.Type = "SubscriptionConfirmation",
                              !.SubscribeURL = u, !.getOk = g] :
             u \in {<<>>, <<"https://sns/confirm">>}, g \in BOOLEAN }
    \cup { [SnsDefault EXCEPT !.SigningCertURL = c, !.Signature = sg, !.cert = ce,
                              !.hasSignedFields = h, !.Message = m.kind,
                              !.Records = m.recs, !.publishOk = p] :
             c \in {<<>>, AwsCertUrl, LookalikeCertUrl, HttpCertUrl, OtherCertUrl},
             sg \in {"absent", "valid", "invalid", "not base64"},
             ce \in {"pem", "not a certificate", "fetch fails"},
             h \in BOOLEAN, m \in Messages, p \in BOOLEAN }

\* ------------------------------------------------------ storage_event.py
\* the storage events a caller may post
StorageEvents ==
    { [EventName |-> <<"s3:", "ObjectCreated", ":Put">>,
       Key |-> <<STORAGE_INCOMING, "/", "a">>],
      [EventName |-> <<"s3:", "ObjectRemoved", ":Delete">>,
       Key |-> <<STORAGE_PUBLIC, "/", "b">>] }

\* the input dict of the process: with or without 'storage_event'; publishOk
\* tells whether publish.single returns or raises
StorageEventInputs ==
    { [has |-> FALSE, storage_event |-> NoStorageMsg, publishOk |-> p] : p \in BOOLEAN }
    \cup { [has |-> TRUE, storage_event |-> e, publishOk |-> p] :
             e \in StorageEvents, p \in BOOLEAN }

NoStorageEventCall ==
    [req |-> [has |-> FALSE, storage_event |-> NoStorageMsg, publishOk |-> TRUE],
     status |-> "idle", exc |-> "none", mimetype |-> "none", outputs |-> [status |-> "none"],
     attempts |-> 0, broker |-> <<>>]

\* StorageEventProcessor.execute (lines 81-124)
StorageEventProcessor_execute(data) ==
    LET status == "unknown" IN
    IF ~data.has
    THEN [req |-> data, status |-> "raised", exc |-> "ProcessorExecuteError",
          mimetype |-> "none", outputs |-> [status |-> "none"], attempts |-> 0,
          broker |-> <<>>]
    ELSE LET msg == data.storage_event IN
         IF ~data.publishOk
         THEN [req |-> data, status |-> "returned", exc |-> "none",
               mimetype |-> "application/json",
               outputs |-> [status |-> "Error publishing on topic=wis2box/storage"],
               attempts |-> 1, broker |-> <<>>]
         ELSE [req |-> data, status |-> "returned", exc |-> "none",
               mimetype |-> "application/json", outputs |-> [status |-> status],
               attempts |-> 1,
               broker |-> <<[topic |-> "wis2box/storage", qos |-> 1, retain |-> FALSE,
                             payload |-> msg]>>]

\* ------------------------------------- two process_items calls in progress
Procs == {1, 2}

\* records of the concurrent batches: one that is published, one whose
\* payload is null, one that only reports an error and a warning
ConcItems ==
    { MkItem(<<Entry("bufr4", "bytes")>>, OkMeta("0-20000-0-15015", ResultCode(1)),
             Listed(<<>>), Listed(<<>>)),
      MkItem(<<Entry("bufr4", "None")>>, OkMeta("absent", NoResult),
             Listed(<<>>), Listed(<<>>)),
      MkItem(<<>>, NoMeta, Listed(<<InputError>>), Listed(<<InputWarning>>)) }

ConcBatches == UNION { [1..n -> ConcItems] : n \in 0..MaxConcItems }

\* the two calls are made on one DataHandler instance or on two
ConcHandlers ==
    { [p \in Procs |-> DataHandler(<<"csv-test/data">>, TRUE, {})],
      [p \in Procs |-> DataHandler(<<"csv-test/data">>, p = 1, {})] }

\* the local variables of one process_items call as lines 89-99 set them,
\* with the positions of its two loops
NewFrame ==
    [data_items |-> <<>>, errors |-> <<>>, warnings |-> <<>>, data_converted |-> 0,
     data_published |-> 0, i |-> 1, j |-> 1, raised |-> "none", sent |-> <<>>,
     broker |-> <<>>, attempts |-> 0]

\* the variables of lines 89-99 kept in one place for all calls
FrameOf_Shared(p) == 1

\* lines 89-99: errors, warnings, data_items and the counters are local
\* variables of the call, so each call has a frame of its own
FrameOf(p) == p

NoConcResult == [status |-> "idle", exc |-> "none", outputs |-> NoOutputs]

NoConc ==
    [self |-> [p \in Procs |-> DataHandler(<<"csv-test/data">>, FALSE, {})],
     batch |-> [p \in Procs |-> <<>>],
     pc |-> [p \in Procs |-> "idle"],
     frame |-> [p \in Procs |-> NewFrame],
     out |-> [p \in Procs |-> NoConcResult]]

\* what the call returns or raises, from its local variables (lines 149-165)
ResultOfFrame(f) ==
    IF f.raised # "none"
    THEN [status |-> "raised", exc |-> f.raised, outputs |-> NoOutputs]
    ELSE [status |-> "returned", exc |-> "none",
          outputs |-> [keys |-> OutputKeys,
                       result |-> Classify(f.data_converted, f.errors, f.warnings),
                       transformed |-> f.data_converted,
                       published |-> f.data_published,
                       data_items |-> <<>>,
                       errors |-> f.errors,
                       warnings |-> f.warnings]]

\* the requests of SnsRequests, and the Notifications among them with a
\* signature the key's verify call answers with a true value
RelayRequests ==
    SnsRequests
    \cup { [r EXCEPT !.Signature = "accepted"] :
              r \in { q \in SnsRequests : q.Type = "Notification" /\ q.body = "object"
                                           /\ q.Signature = "valid" } }

Init ==
    /\ call = "idle"
    /\ pi_req = NoPiReq
    /\ dp_req = NoProcessReq
    /\ csv_req = NoProcessReq
    /\ sns_req = SnsDefault
    /\ ret = NoCall
    /\ sns_ret = NoSnsRet
    /\ net = <<>>
    /\ broker = <<>>
    /\ val = <<>>
    /\ conc = NoConc
    /\ se = NoStorageEventCall

\* a caller builds DataHandler(channel, notify) and hands it a batch
ProcessItems ==
    /\ call = "idle"
    /\ \E channel \in Channels, notify \in BOOLEAN, items \in Batches :
       \E brokerFails \in IF notify THEN SUBSET (1..MaxFail) ELSE {{}} :
          LET self == DataHandler(channel, notify, {})
              r == process_items(self, items, brokerFails)
          IN  /\ call' = "process_items"
              /\ pi_req' = [channel |-> channel, notify |-> notify, items |-> items,
                            brokerFails |-> brokerFails]
              /\ ret' = r
              /\ broker' = r.broker
    /\ UNCHANGED <<dp_req, csv_req, sns_req, sns_ret, net, val, conc, se>>

\* the wis2box-publish_data process is executed
DataPublishExecute ==
    /\ call = "idle"
    /\ \E data \in DpInputs :
          LET r == DataPublishProcessor_execute(data)
          IN  /\ call' = "publish_data"
              /\ dp_req' = data
              /\ ret' = r.ret
              /\ net' = r.gets
              /\ broker' = r.ret.broker
    /\ UNCHANGED <<pi_req, csv_req, sns_req, sns_ret, val, conc, se>>

\* the wis2box-csv2bufr process is executed
CsvExecute ==
    /\ call = "idle"
    /\ \E data \in CsvInputs :
          LET r == CSVPublishProcessor_execute(data)
          IN  /\ call' = "csv2bufr"
              /\ csv_req' = data
              /\ ret' = r.ret
              /\ net' = r.gets
              /\ broker' = r.ret.broker
    /\ UNCHANGED <<pi_req, dp_req, sns_req, sns_ret, val, conc, se>>

\* POST /sns
SnsListener ==
    /\ call = "idle"
    /\ \E request \in SnsRequests :
          LET r == sns_listener(request)
          IN  /\ call' = "sns"
              /\ sns_req' = request
              /\ sns_ret' = r
              /\ broker' = r.broker
    /\ UNCHANGED <<pi_req, dp_req, csv_req, ret, net, val, conc, se>>

\* POST /oapi/sns
AppSnsListener ==
    /\ call = "idle"
    /\ \E request \in SnsRequests :
          LET r == app_sns_listener(request)
          IN  /\ call' = "oapi_sns"
              /\ sns_req' = request
              /\ sns_ret' = r
              /\ broker' = r.broker
    /\ UNCHANGED <<pi_req, dp_req, csv_req, ret, net, val, conc, se>>

\* the wis2box-storage-event process is executed
StorageEventExecute ==
    /\ call = "idle"
    /\ \E data \in StorageEventInputs :
          LET r == StorageEventProcessor_execute(data)
          IN  /\ call' = "storage_event"
              /\ se' = r
              /\ broker' = r.broker
    /\ UNCHANGED <<pi_req, dp_req, csv_req, sns_req, ret, sns_ret, net, val, conc>>

Next ==
    \/ ProcessItems
    \/ DataPublishExecute
    \/ CsvExecute
    \/ SnsListener
    \/ AppSnsListener
    \/ StorageEventExecute

Spec == Init /\ [][Next]_vars

\* lines 188-243 of CSVPublishProcessor.execute, run with a handler built as
\* DataHandler(channel, notify) and the items a converter yielded: the
\* station validation and the dispatch of its output
ValidateAndProcess ==
    /\ call = "idle"
    /\ \E notify \in BOOLEAN, items \in CsvBatches, genRaises \in BOOLEAN,
          stations \in Registries :
       \E brokerFails \in IF notify THEN SUBSET (1..MaxFail) ELSE {{}} :
          LET data_handler == DataHandler(TestFront.channel, notify, {})
              output_items == ValidateItems(items, genRaises, 1, stations, <<>>)
              r == process_items(data_handler, output_items, brokerFails)
          IN  /\ call' = "validate"
              /\ csv_req' = [TestFront EXCEPT !.notify = notify]
                                @@ CsvRest(TRUE, items, genRaises, stations, brokerFails)
              /\ val' = ValidationLog(items, 1, stations)
              /\ ret' = r
              /\ broker' = r.broker
    /\ UNCHANGED <<pi_req, dp_req, sns_req, sns_ret, net, conc, se>>

NextValidate == ValidateAndProcess

\* the station validation of csv2bufr and its dispatch, from the point where
\* handler and converter exist
SpecValidate == Init /\ [][NextValidate]_vars

\* two threads are about to call process_items
StartConcurrent ==
    /\ call = "idle"
    /\ \E handlers \in ConcHandlers, batches \in [Procs -> ConcBatches] :
          conc' = [NoConc EXCEPT !.self = handlers, !.batch = batches,
                                 !.pc = [p \in Procs |-> "start"]]
    /\ call' = "concurrent"
    /\ UNCHANGED <<pi_req, dp_req, csv_req, sns_req, ret, sns_ret, net, broker, val, se>>

\* lines 87-99: the call sets up its local variables
Begin(p) ==
    /\ call = "concurrent"
    /\ conc.pc[p] = "start"
    /\ conc' = [conc EXCEPT !.pc[p] = "collect", !.frame[FrameOf(p)] = NewFrame]
    /\ UNCHANGED <<call, pi_req, dp_req, csv_req, sns_req, ret, sns_ret, net, broker,
                   val, se>>

\* one pass of the first loop (lines 102-115), or its end
Collect(p) ==
    /\ call = "concurrent"
    /\ conc.pc[p] = "collect"
    /\ LET f == conc.frame[FrameOf(p)]
           output_items == conc.batch[p]
       IN  IF f.i > Len(output_items)
           THEN conc' = [conc EXCEPT !.pc[p] = "publish"]
           ELSE LET record == output_items[f.i]
                    c == CollectRecords(<<record>>, 1,
                             [data_items |-> <<>>, data_converted |-> f.data_converted,
                              errors |-> f.errors, warnings |-> f.warnings])
                IN  conc' = [conc EXCEPT !.frame[FrameOf(p)] =
                                [f EXCEPT !.data_items =
                                              IF c.data_items # <<>>
                                              THEN Append(@, [idx |-> f.i, record |-> record])
                                              ELSE @,
                                          !.data_converted = c.data_converted,
                                          !.errors = c.errors,
                                          !.warnings = c.warnings,
                                          !.i = @ + 1]]
    /\ UNCHANGED <<call, pi_req, dp_req, csv_req, sns_req, ret, sns_ret, net, broker,
                   val, se>>

\* one pass of the second loop (lines 117-147), or its end
Publish(p) ==
    /\ call = "concurrent"
    /\ conc.pc[p] = "publish"
    /\ LET f == conc.frame[FrameOf(p)] IN
       IF f.j > Len(f.data_items)
       THEN /\ conc' = [conc EXCEPT !.pc[p] = "classify"]
            /\ UNCHANGED broker
       ELSE LET item == f.data_items[f.j]
                g == PublishItem(conc.self[p], item.record, item.idx,
                                 [f EXCEPT !.broker = <<>>], {})
            IN  /\ conc' = [conc EXCEPT !.frame[FrameOf(p)] = [g EXCEPT !.j = @ + 1],
                                         !.pc[p] = IF g.raised # "none"
                                                   THEN "classify" ELSE @]
                /\ broker' = broker \o g.broker
    /\ UNCHANGED <<call, pi_req, dp_req, csv_req, sns_req, ret, sns_ret, net, val, se>>

\* lines 149-165: the result is classified and returned
Finish(p) ==
    /\ call = "concurrent"
    /\ conc.pc[p] = "classify"
    /\ conc' = [conc EXCEPT !.pc[p] = "done",
                            !.out[p] = ResultOfFrame(conc.frame[FrameOf(p)])]
    /\ UNCHANGED <<call, pi_req, dp_req, csv_req, sns_req, ret, sns_ret, net, broker,
                   val, se>>

NextConcurrent ==
    \/ StartConcurrent
    \/ \E p \in Procs : Begin(p)
    \/ \E p \in Procs : Collect(p)
    \/ \E p \in Procs : Publish(p)
    \/ \E p \in Procs : Finish(p)

\* two process_items calls interleaved, a loop pass at a time
SpecConcurrent == Init /\ [][NextConcurrent]_vars

\* POST /sns, whatever the key's verify call answers
SnsRelay ==
    /\ call = "idle"
    /\ \E request \in RelayRequests :
          LET r == sns_listener(request)
          IN  /\ call' = "sns"
              /\ sns_req' = request
              /\ sns_ret' = r
              /\ broker' = r.broker
    /\ UNCHANGED <<pi_req, dp_req, csv_req, ret, net, val, conc, se>>

NextRelay == SnsRelay

\* the /sns relay alone, with every outcome of the verification step
SpecRelay == Init /\ [][NextRelay]_vars

\* ================================================================ claims
\* -------------------------------------------------- DataHandler.process_items
Returned == call = "process_items" /\ ret.status = "returned"

NoIssues(o) == o.errors = <<>> /\ o.warnings = <<>>

\* C1: for every batch passed to process_items the returned result is
\* 'failure' exactly when 'messages transformed' is 0 (errors or not),
\* 'success' exactly when it is positive and errors and warnings are both
\* empty, and 'partial success' in every other case.
C1_OutcomeClassification ==
    Returned =>
        LET o == ret.outputs IN
        /\ o.result \in {"failure", "success", "partial success"}
        /\ (o.result = "failure") <=> (o.transformed = 0)
        /\ (o.result = "success") <=> (o.transformed > 0 /\ NoIssues(o))
        /\ (o.result = "partial success") <=> (o.transformed > 0 /\ ~NoIssues(o))

\* a batch with nothing transformed and an error reported is a 'failure'
C1_Witness ==
    /\ Returned
    /\ ret.outputs.transformed = 0
    /\ ret.outputs.errors # <<>>
    /\ ret.outputs.result = "failure"

SuccessfulSends == { i \in 1..Len(ret.sent) : ret.sent[i].ret = "success" }

\* C2: after process_items finishes, 'messages published' equals the number
\* of calls of send_data_notification_request of the batch that returned
\* 'success'.
C2_PublishedCountsSuccessfulSends ==
    Returned => ret.outputs.published = Cardinality(SuccessfulSends)

RecognizedFormats == {"bufr4", "grib2", "grib", "cap", "geojson"}

RecognizedKeys(item) ==
    { k \in 1..Len(item.data) : item.data[k].fmt \in RecognizedFormats }

C6_ProcessItemsNeverRaises ==
    call = "process_items" =>
        /\ ret.status = "returned"
        /\ (\E i \in 1..Len(ret.sent) : ret.sent[i].ret # "success")
               => ~NoIssues(ret.outputs)

\* the batch handed to process_items
Batch == pi_req.items

\* the item has every key the second loop of process_items subscripts
Subscriptable(item) ==
    /\ item.meta.present /\ item.meta.hasProps /\ item.meta.hasId
    /\ item.meta.hasDatetime
    /\ item.meta.result.present =>
           (item.meta.result.hasCode /\ item.meta.result.hasMessage)

\* every item of the batch with a recognized format key is subscriptable
BatchSubscriptable ==
    \A i \in 1..Len(Batch) : RecognizedKeys(Batch[i]) # {} => Subscriptable(Batch[i])

\* the (item, format) pairs of the batch eligible for publishing: the format
\* is recognized, the payload is not null, the result code is absent or 1
Eligible ==
    { p \in (1..Len(Batch)) \X RecognizedFormats :
        /\ \E k \in 1..Len(Batch[p[1]].data) :
               /\ Batch[p[1]].data[k].fmt = p[2]
               /\ Batch[p[1]].data[k].val # "None"
        /\ Batch[p[1]].meta.result.present => Batch[p[1]].meta.result.code = 1 }

\* the pair the n-th call of send_data_notification_request was made for
SentPair(n) == <<ret.sent[n].item, ret.sent[n].fmt>>

\* C21: within one process_items call a failed publish for one item does not
\* stop the batch: every later item (and later format payload) eligible for
\* publishing is still attempted, and the call still returns a result.
C21_FailedPublishDoesNotStopBatch ==
    (call = "process_items" /\ pi_req.notify /\ BatchSubscriptable) =>
        /\ ret.status = "returned"
        /\ ret.outputs.keys = OutputKeys
        /\ \A p \in Eligible : \E n \in 1..Len(ret.sent) : SentPair(n) = p

\* the first send failed at the broker and a later item was sent all the same
C21_Witness ==
    /\ call = "process_items"
    /\ Len(ret.sent) >= 2
    /\ ret.sent[1].ret = "Error publishing message"
    /\ ret.sent[2].item > ret.sent[1].item
    /\ ret.sent[2].ret = "success"
    /\ ret.status = "returned"

\* the sends of the call that did not return 'success'
FailedSends == { n \in 1..Len(ret.sent) : ret.sent[n].ret # "success" }

\* C22: no silent data loss in a batch: whenever a publish attempt for an
\* item fails (encoding error or broker error) the outcome is recorded in the
\* result process_items returns, so a batch in which some publish failed is
\* never reported as 'success' with empty errors and warnings.
C22_NoSilentDataLoss ==
    (Returned /\ FailedSends # {}) =>
        /\ ret.outputs.result # "success"
        /\ ret.outputs.errors # <<>> \/ ret.outputs.warnings # <<>>

\* what the call of p returns when it runs alone on its batch
Alone(p) == process_items(conc.self[p], conc.batch[p], {})

\* C23: two process_items calls running concurrently, on the same or on
\* different DataHandler instances, share no accumulator: the counters,
\* errors and warnings each call returns are exactly those it would return
\* if it ran alone on its own batch, under every interleaving.
C23_ConcurrentCallsAreIsolated ==
    call = "concurrent" =>
        \A p \in Procs :
            conc.pc[p] = "done" =>
                /\ conc.out[p].status = Alone(p).status
                /\ conc.out[p].exc = Alone(p).exc
                /\ conc.out[p].outputs = Alone(p).outputs

\* both calls, made on one instance, have returned, with different results
C23_Witness ==
    /\ call = "concurrent"
    /\ conc.self[1] = conc.self[2]
    /\ \A p \in Procs : conc.pc[p] = "done"
    /\ conc.out[1].outputs.result = "success"
    /\ conc.out[1].outputs.transformed = 2
    /\ conc.out[2].outputs.result = "partial success"
    /\ conc.out[2].outputs.errors # <<>>
    /\ conc.out[2].outputs.warnings # <<>>

\* the (item, format) pairs of the batch with a recognized format and a null
\* payload
NullPairs ==
    { p \in (1..Len(Batch)) \X RecognizedFormats :
        \E k \in 1..Len(Batch[p[1]].data) :
            Batch[p[1]].data[k].fmt = p[2] /\ Batch[p[1]].data[k].val = "None" }

\* those of items the second loop does not skip for their result code
NullPairsOfPassedItems ==
    { p \in NullPairs :
        Batch[p[1]].meta.result.present => Batch[p[1]].meta.result.code = 1 }

\* the 'No data returned ...' entries of the returned errors
NoDataEntries ==
    { n \in 1..Len(ret.outputs.errors) : ret.outputs.errors[n].kind = "No data returned" }

\* the WSI such an entry names for the item: its identifier or the placeholder
NamedWsi(item) ==
    IF item.meta.wsi \in {"absent", "None", ""} THEN "(no WSI found)" ELSE item.meta.wsi

\* one entry for each of the pairs, naming the item, no send for any of
\* them, the items counted, and a result other than 'success'
NullPayloadsReported(pairs) ==
    /\ Cardinality(NoDataEntries) = Cardinality(pairs)
    /\ \A p \in pairs :
           /\ \E n \in NoDataEntries :
                  /\ ret.outputs.errors[n].wsi = NamedWsi(Batch[p[1]])
                  /\ ret.outputs.errors[n].date = Batch[p[1]].meta.datetime
           /\ \A n \in 1..Len(ret.sent) : SentPair(n) # p
    /\ ret.outputs.transformed >= Cardinality({ p[1] : p \in pairs })
    /\ pairs # {} => ret.outputs.result # "success"

\* C24: in process_items, for each recognized format key of an item whose
\* payload is null, exactly one 'No data returned ...' error is appended
\* (naming the WSI, or a placeholder when the item has no WSI) and no publish
\* is attempted for that payload; the item still counts as transformed, so
\* the batch outcome cannot be 'success'.
C24_NullPayloadIsAnError == Returned => NullPayloadsReported(NullPairs)

\* C24 as amended: the same for the items whose _meta.result is absent or has
\* code 1; an item with another result code is skipped before its payloads
\* are looked at, and its null payload adds no error.
C24_NullPayloadOfPassedItemIsAnError ==
    Returned =>
        /\ NullPayloadsReported(NullPairsOfPassedItems)
        /\ \A p \in NullPairs : \A n \in 1..Len(ret.sent) : SentPair(n) # p

C24_Witness ==
    /\ Returned
    /\ pi_req.notify
    /\ Len(Batch) = 2
    /\ NullPairsOfPassedItems = {<<1, "geojson">>}
    /\ Cardinality(NoDataEntries) = 1
    /\ ret.outputs.errors[1].wsi = "0-20000-0-15015"
    /\ ret.outputs.transformed = 2
    /\ ret.outputs.result = "partial success"
    /\ Len(ret.sent) = 1

\* the items of the batch whose _meta.result.code is present and not 1
SkippedForCode ==
    { i \in 1..Len(Batch) :
        /\ Batch[i].meta.present
        /\ Batch[i].meta.result.present
        /\ Batch[i].meta.result.hasCode
        /\ Batch[i].meta.result.code # 1 }

\* the number of errors the records of the batch bring with them
RECURSIVE RecordErrorCount(_)
RecordErrorCount(items) ==
    IF items = <<>> THEN 0
    ELSE (IF Head(items).errors.present THEN Len(Head(items).errors.list) ELSE 0)
         + RecordErrorCount(Tail(items))

\* C25: in process_items an item whose _meta.result.code is present and not
\* equal to 1 has none of its payloads published and adds no entry to
\* 'errors' for that reason, yet it is still counted in 'messages
\* transformed' when it carries a recognized format key.
C25_NonSuccessCodeIsSkippedSilently ==
    Returned =>
        /\ \A i \in SkippedForCode : \A n \in 1..Len(ret.sent) : ret.sent[n].item # i
        /\ Len(ret.outputs.errors)
               = RecordErrorCount(Batch) + Cardinality(NullPairsOfPassedItems)
        /\ ret.outputs.transformed
               >= Cardinality({ i \in SkippedForCode : RecognizedKeys(Batch[i]) # {} })
        /\ ret.outputs.transformed
               = Cardinality({ i \in 1..Len(Batch) : RecognizedKeys(Batch[i]) # {} })

\* an item with result code 2 and a payload is counted and not sent, next to
\* an item that is sent
C25_Witness ==
    /\ Returned
    /\ pi_req.notify
    /\ Len(Batch) = 2
    /\ SkippedForCode = {1}
    /\ Batch[1].data = <<Entry("bufr4", "bytes")>>
    /\ ret.outputs.transformed = 2
    /\ ret.outputs.errors = <<>>
    /\ Len(ret.sent) = 1
    /\ ret.sent[1].item = 2

\* the sends that returned 'success', in the order they were made
SuccessfulSendSeq == SelectSeq(ret.sent, LAMBDA s : s.ret = "success")

\* C29: every message process_items publishes to 'wis2box/requests'
\* corresponds to one (item, format) pair of the batch where the format is
\* recognized, the payload is non-null and the item's result code is absent
\* or 1, with filename '{item id}.{format}'; each such pair is published at
\* most once, and when notify is false no message is published at all.
C29_DispatchInvariant ==
    call = "process_items" =>
        /\ \A n \in 1..Len(ret.sent) :
               /\ SentPair(n) \in Eligible
               /\ ret.sent[n].filename = <<Batch[ret.sent[n].item].meta.id, ret.sent[n].fmt>>
               /\ \A m \in 1..Len(ret.sent) : SentPair(m) = SentPair(n) => m = n
        /\ Len(broker) = Len(SuccessfulSendSeq)
        /\ \A m \in 1..Len(broker) :
               /\ broker[m].topic = "wis2box/requests"
               /\ broker[m].payload.filename = SuccessfulSendSeq[m].filename
        /\ ~pi_req.notify => (ret.sent = <<>> /\ broker = <<>>)

\* both payloads of one item are published, and nothing of an item with
\* result code 2
C29_Witness ==
    /\ Returned
    /\ pi_req.notify
    /\ Len(Batch) = 2
    /\ Batch[1].meta.result.present /\ Batch[1].meta.result.code = 2
    /\ Batch[1].data # <<>>
    /\ Len(broker) = 2
    /\ broker[1].payload.filename = <<"ID", "bufr4">>
    /\ broker[2].payload.filename = <<"ID", "geojson">>
    /\ SentPair(1) = <<2, "bufr4">>

\* --------------------------------------------------------- the processes
\* the input of test_csv2bufr_wrong_location: one item of a known station
\* that reports a location beyond the threshold
WrongLocationInput ==
    /\ call = "csv2bufr"
    /\ csv_req.hasNotify /\ csv_req.notify /\ csv_req.metadata_id # "None"
    /\ csv_req.hasChannel /\ csv_req.transformOk /\ ~csv_req.genRaises
    /\ Len(csv_req.items) = 1
    /\ LET m == csv_req.items[1].meta IN
       /\ m.present /\ m.hasProps /\ m.wsi \in DOMAIN csv_req.stations
       /\ m.geometry.kind = "point"
       /\ csv_req.stations[m.wsi].kind = "point"
       /\ m.geometry.pos - csv_req.stations[m.wsi].pos > DistanceThreshold
       /\ ~m.result.errors.present /\ ~m.result.warnings.present

\* C4: csv2bufr on a single item of a known station whose reported location
\* is farther from the station than the threshold returns 'partial success'
\* with 'messages transformed' = 1, 'messages published' = 0, no errors and
\* exactly one warning, the distance warning.
C4_WrongLocationIsPartialSuccess ==
    WrongLocationInput =>
        /\ ret.status = "returned"
        /\ ret.outputs.result = "partial success"
        /\ ret.outputs.transformed = 1
        /\ ret.outputs.published = 0
        /\ ret.outputs.errors = <<>>
        /\ Len(ret.outputs.warnings) = 1
        /\ ret.outputs.warnings[1].kind = "distance"
        /\ broker = <<>>

\* the inputs of test_universal and test_universal_binary
UniversalInput ==
    /\ call = "publish_data"
    /\ dp_req.hasNotify /\ dp_req.notify /\ dp_req.metadata_id # "None"
    /\ dp_req.hasChannel
    /\ dp_req.filename # <<>>
    /\ dp_req.data \in {"str", "bytes"}
    /\ dp_req.datetimeOk
    /\ dp_req.brokerFails = {}

\* C5: DataPublishProcessor.execute with notify true, a metadata_id, a
\* channel, string or bytes data, a datetime and a filename of any extension
\* returns 'success' with 'messages transformed' = 1, 'messages published'
\* = 1, no errors and no warnings, and publishes one data notification.
C5_UniversalPublishSucceeds ==
    UniversalInput =>
        /\ ret.status = "returned"
        /\ ret.outputs.result = "success"
        /\ ret.outputs.transformed = 1
        /\ ret.outputs.published = 1
        /\ NoIssues(ret.outputs)
        /\ Len(broker) = 1

\* C7: for every input both processes end by returning ('application/json',
\* outputs) with 'result', 'errors' and 'warnings'; once the channel is
\* resolved, building the DataHandler and reaching process_items does not
\* raise.
C7_ProcessesReturnStructuredResult ==
    call \in {"csv2bufr", "publish_data"} =>
        /\ ret.status = "returned"
        /\ ret.mimetype = "application/json"
        /\ {"result", "errors", "warnings"} \subseteq ret.outputs.keys

\* -------------------------------------------------------------- the relay
Happened(what) == \E i \in 1..Len(sns_ret.trace) : sns_ret.trace[i].ev = what

IsNotification ==
    call = "sns" /\ sns_req.body = "object" /\ sns_req.Type = "Notification"

\* the envelope names a certificate at the allowed place, the certificate is
\* one, and the signature is that of the envelope's signed fields
ValidlySigned ==
    /\ sns_req.SigningCertURL # <<>>
    /\ Head(sns_req.SigningCertURL) = "https://sns."
    /\ sns_req.SigningCertURL[Len(sns_req.SigningCertURL)]
           = ".amazonaws.com/SimpleNotificationService.pem"
    /\ sns_req.cert = "pem"
    /\ sns_req.hasSignedFields
    /\ sns_req.Signature = "valid"

\* C8: the /sns handler lets no exception escape: for every request body and
\* every outcome of its outbound calls it returns an HTTP status with a JSON
\* body holding 'status' or 'error'.
C8_RelayNeverRaises ==
    call = "sns" =>
        /\ sns_ret.status = "returned"
        /\ sns_ret.code \in {200, 400, 500}
        /\ sns_ret.key \in {"status", "error"}

\* C9: a publish to 'wis2box/storage' happens only after the signature of the
\* same envelope has been verified; a request whose verification fails
\* returns 400 and neither publishes nor parses the nested Message.
C9_PublishOnlyAfterVerification ==
    IsNotification =>
        /\ (Happened("publish") \/ broker # <<>>) => ValidlySigned
        /\ ~ValidlySigned =>
              /\ sns_ret.status = "returned"
              /\ sns_ret.code = 400
              /\ ~Happened("publish")
              /\ ~Happened("parse")
              /\ broker = <<>>

\* every record of the event is an S3 record of an allow-listed bucket
AllowListedEvent ==
    /\ sns_req.Message = "records"
    /\ sns_req.Records # <<>>
    /\ \A i \in 1..Len(sns_req.Records) :
          /\ sns_req.Records[i].eventSource = "aws:s3"
          /\ sns_req.Records[i].bucket \in {"wis2box-incoming", "wis2box-public"}
          /\ sns_req.Records[i].eventName # <<>>
          /\ sns_req.Records[i].key # <<>>

\* C10: a validly signed Notification with an allowed certificate URL, whose
\* Message holds an 'aws:s3' record of an allow-listed bucket and whose broker
\* publish succeeds, ends with exactly one publish to 'wis2box/storage' and
\* HTTP 200 with a status body.
C10_ValidNotificationIsPublished ==
    (IsNotification /\ ValidlySigned /\ AllowListedEvent /\ sns_req.publishOk) =>
        /\ sns_ret.status = "returned"
        /\ sns_ret.code = 200
        /\ sns_ret.key = "status"
        /\ Len(broker) = 1
        /\ broker[1].topic = "wis2box/storage"

\* ---------------------------------------------------------------- /sns relay
\* the envelope carries the two fields verify_sns_signature reads first
HasSigningFields == sns_req.SigningCertURL # <<>> /\ sns_req.Signature # "absent"

\* the URL has the form https://sns.*.amazonaws.com/SimpleNotificationService.pem
MatchesSnsPattern(url) ==
    /\ url # <<>>
    /\ Head(url) = "https://sns."
    /\ url[Len(url)] = ".amazonaws.com/SimpleNotificationService.pem"

\* C11: a Notification envelope whose SigningCertURL does not match
\* https://sns.*.amazonaws.com/SimpleNotificationService.pem is answered with
\* HTTP 400, and neither an outbound request (the certificate fetch) nor a
\* broker publish is made for it.
C11_BadCertUrlRejectedBeforeFetch ==
    (IsNotification /\ HasSigningFields /\ ~MatchesSnsPattern(sns_req.SigningCertURL)) =>
        /\ sns_ret.status = "returned"
        /\ sns_ret.code = 400
        /\ ~Happened("GET")
        /\ ~Happened("publish")
        /\ sns_ret.trace = <<>>
        /\ broker = <<>>

C11_Witness ==
    /\ IsNotification
    /\ sns_req.SigningCertURL = HttpCertUrl
    /\ sns_req.Signature = "accepted"
    /\ sns_req.Message = "records"
    /\ sns_ret.code = 400
    /\ sns_ret.text = "SNS signature verification failed"

\* a Notification envelope is handled by either of the two routes
NotificationOnAnyRoute ==
    /\ call \in {"sns", "oapi_sns"}
    /\ sns_req.body = "object"
    /\ sns_req.Type = "Notification"

\* the signature was checked, and before the Message was parsed
VerifiedBeforeParse ==
    \A i \in 1..Len(sns_ret.trace) :
        sns_ret.trace[i].ev = "parse" =>
            \E j \in 1..(i - 1) : sns_ret.trace[j].ev = "verify"

\* C12: every HTTP handler that accepts a Notification envelope (the '/sns'
\* blueprint route and the '/oapi/sns' application route) verifies the
\* envelope's signature before it parses or acts on the Message, and returns
\* a 2xx status only if the verification succeeded.
C12_EveryRouteVerifiesNotifications ==
    NotificationOnAnyRoute =>
        /\ VerifiedBeforeParse
        /\ (sns_ret.status = "returned" /\ sns_ret.code \in 200..299) =>
               (Happened("verify") /\ ValidlySigned)

IsSubscriptionConfirmation ==
    /\ call = "sns"
    /\ sns_req.body = "object"
    /\ sns_req.Type = "SubscriptionConfirmation"

\* C13: a SubscriptionConfirmation envelope with a SubscribeURL causes
\* exactly one outbound GET, to that URL, no broker publish, and (the GET
\* having completed) a 200 response with status 'subscription confirmed';
\* one without a SubscribeURL causes no outbound GET and a 400 response.
C13_SubscriptionConfirmation ==
    IsSubscriptionConfirmation =>
        /\ ~Happened("publish")
        /\ broker = <<>>
        /\ sns_req.SubscribeURL # <<>> =>
               /\ sns_ret.trace = <<Ev("GET", sns_req.SubscribeURL)>>
               /\ sns_req.getOk =>
                      /\ sns_ret.status = "returned"
                      /\ sns_ret.code = 200
                      /\ sns_ret.key = "status"
                      /\ sns_ret.text = "subscription confirmed"
        /\ sns_req.SubscribeURL = <<>> =>
               /\ sns_ret.trace = <<>>
               /\ sns_ret.status = "returned"
               /\ sns_ret.code = 400

C13_Witness ==
    /\ IsSubscriptionConfirmation
    /\ sns_req.SubscribeURL # <<>>
    /\ sns_ret.code = 200
    /\ Len(sns_ret.trace) = 1

\* the 'aws:s3' records of the event, in order
IsS3(record) == record.eventSource = "aws:s3"

S3Records == SelectSeq(sns_req.Records, IsS3)

\* the envelope has its signing fields and, where its certificate URL is
\* allowed, a certificate and a signature the verification step answers for
AnsweredByVerification ==
    /\ HasSigningFields
    /\ MatchesSnsPattern(sns_req.SigningCertURL) =>
           /\ sns_req.cert = "pem"
           /\ sns_req.hasSignedFields
           /\ sns_req.Signature \in {"valid", "accepted"}

\* the Message is a JSON object whose 'aws:s3' records have a name and a key
ReadableEvent ==
    /\ sns_req.Message \in {"records", "no records"}
    /\ \A i \in 1..Len(S3Records) :
           S3Records[i].eventName # <<>> /\ S3Records[i].key # <<>>

\* C14: every StorageEvent the /sns relay publishes to 'wis2box/storage' has
\* a Key whose bucket part is STORAGE_INCOMING or STORAGE_PUBLIC; a
\* notification with no 'aws:s3' record, or whose retained record's bucket is
\* outside the allow-list, is answered 400 and nothing is published.
C14_OnlyAllowListedBucketsPublished ==
    call = "sns" =>
        /\ \A i \in 1..Len(broker) :
               /\ broker[i].topic = "wis2box/storage"
               /\ Head(broker[i].payload.Key) \in {STORAGE_INCOMING, STORAGE_PUBLIC}
        /\ ( /\ IsNotification /\ AnsweredByVerification /\ ReadableEvent
             /\ \/ S3Records = <<>>
                \/ S3Records[Len(S3Records)].bucket
                       \notin {STORAGE_INCOMING, STORAGE_PUBLIC} ) =>
               /\ sns_ret.status = "returned"
               /\ sns_ret.code = 400
               /\ ~Happened("publish")
               /\ broker = <<>>

C14_Witness ==
    /\ IsNotification
    /\ sns_req.Signature = "accepted"
    /\ Len(S3Records) = 2
    /\ S3Records[1].bucket = STORAGE_INCOMING
    /\ S3Records[2].bucket = "other-bucket"
    /\ sns_ret.code = 400
    /\ sns_ret.text = "Invalid bucket"

\* the name with 's3:' put before a leading ObjectCreated or ObjectRemoved
WithS3Prefix(eventName) ==
    IF Head(eventName) \in {"ObjectCreated", "ObjectRemoved"}
    THEN <<"s3:">> \o eventName ELSE eventName

\* the key with every %3A replaced by a colon
RECURSIVE ColonsDecoded(_)
ColonsDecoded(key) ==
    IF key = <<>> THEN <<>>
    ELSE <<IF Head(key) = "%3A" THEN ":" ELSE Head(key)>> \o ColonsDecoded(Tail(key))

\* C15: for an 'aws:s3' record of an allow-listed bucket the published
\* StorageEvent has the record's eventName with 's3:' put before
\* ObjectCreated/ObjectRemoved as its EventName and '{bucket}/{object key with
\* every %3A replaced by :}' as its Key; every published EventName begins with
\* 's3:ObjectCreated' or 's3:ObjectRemoved'.
C15_PublishedEventIsNormalised ==
    /\ ( /\ IsNotification /\ ValidlySigned /\ ReadableEvent /\ sns_req.publishOk
         /\ S3Records # <<>>
         /\ S3Records[Len(S3Records)].bucket \in {STORAGE_INCOMING, STORAGE_PUBLIC} ) =>
           LET record == S3Records[Len(S3Records)] IN
           /\ Len(broker) = 1
           /\ broker[1].payload.EventName = WithS3Prefix(record.eventName)
           /\ broker[1].payload.Key = <<record.bucket, "/">> \o ColonsDecoded(record.key)
    /\ call = "sns" =>
           \A i \in 1..Len(broker) :
               /\ Len(broker[i].payload.EventName) >= 2
               /\ broker[i].payload.EventName[1] = "s3:"
               /\ broker[i].payload.EventName[2] \in {"ObjectCreated", "ObjectRemoved"}

\* C16: fail-closed: a /sns request that ends with an HTTP 400 response
\* (parse failure, missing Type, missing SubscribeURL, failed verification,
\* missing Records, no S3 record, bucket not allowed, unhandled type) has
\* made no broker publish, and attempted none, at any point of its handling.
C16_FailClosed ==
    (call = "sns" /\ sns_ret.status = "returned" /\ sns_ret.code = 400) =>
        /\ ~Happened("publish")
        /\ sns_ret.broker = <<>>
        /\ broker = <<>>

\* the 400 closest to the publish: verification passed, Records present,
\* none of them an S3 record
C16_Witness ==
    /\ call = "sns"
    /\ sns_ret.code = 400
    /\ sns_ret.text = "No valid S3 records found"
    /\ Happened("verify")
    /\ Happened("parse")
    /\ sns_req.publishOk

\* the publish attempts of the request
PublishAttempts ==
    { i \in 1..Len(sns_ret.trace) : sns_ret.trace[i].ev = "publish" }

\* C17: the /sns relay attempts the broker publish at most once per request,
\* on topic 'wis2box/storage' with QoS 1 and retain false; if the attempt
\* fails the request returns 500 with an error body and the publish is not
\* tried again.
C17_PublishAtMostOnce ==
    call = "sns" =>
        /\ Cardinality(PublishAttempts) <= 1
        /\ \A i \in PublishAttempts : sns_ret.trace[i].arg = <<"wis2box/storage">>
        /\ Len(broker) <= Cardinality(PublishAttempts)
        /\ \A i \in 1..Len(broker) :
               /\ broker[i].topic = "wis2box/storage"
               /\ broker[i].qos = 1
               /\ broker[i].retain = FALSE
        /\ (PublishAttempts # {} /\ ~sns_req.publishOk) =>
               /\ sns_ret.status = "returned"
               /\ sns_ret.code = 500
               /\ sns_ret.key = "error"
               /\ broker = <<>>

C17_Witness ==
    /\ call = "sns"
    /\ Cardinality(PublishAttempts) = 1
    /\ ~sns_req.publishOk
    /\ sns_ret.code = 500

\* -------------------------------------------- csv2bufr station validation
\* the items the validation loop took, by position
Validated == IF call = "validate" THEN 1..Len(val) ELSE {}

\* the item of that position as the converter yielded it
Yielded(i) == csv_req.items[i]

HasProperties(item) == item.meta.present /\ item.meta.hasProps

\* the warnings the converter itself reported for the item
ConverterWarnings(item) ==
    IF item.meta.result.present /\ item.meta.result.warnings.present
    THEN item.meta.result.warnings.list ELSE <<>>

HasBufr4(data) == \E k \in 1..Len(data) : data[k].fmt = "bufr4"

SentFor(i) == { k \in 1..Len(ret.sent) : ret.sent[k].item = i }

BothHaveCoordinates(i) ==
    /\ HasProperties(Yielded(i))
    /\ Yielded(i).meta.wsi \in DOMAIN csv_req.stations
    /\ Yielded(i).meta.geometry.kind = "point"
    /\ csv_req.stations[Yielded(i).meta.wsi].kind = "point"

\* meters between the position in the data and that of the registry
Distance(i) ==
    geodesic(csv_req.stations[Yielded(i).meta.wsi], Yielded(i).meta.geometry)

LoopIsEntered ==
    /\ call \in {"csv2bufr", "validate"}
    /\ csv_req.hasNotify /\ csv_req.metadata_id # "None" /\ csv_req.hasChannel
    /\ csv_req.transformOk /\ ~csv_req.genRaises

\* handling the item raises in the validation loop: it has no properties, or
\* it is of a registered station and a geometry is None
FailsInLoop(item) ==
    \/ ~HasProperties(item)
    \/ /\ item.meta.wsi \in DOMAIN csv_req.stations
       /\ \/ item.meta.geometry.kind = "None"
          \/ csv_req.stations[item.meta.wsi].kind = "None"

\* the item passes the validation with its payload and is to be published
PassesValidation(item) ==
    /\ HasProperties(item)
    /\ item.meta.wsi \in DOMAIN csv_req.stations
    /\ item.meta.geometry.kind = "point"
    /\ csv_req.stations[item.meta.wsi].kind = "point"
    /\ geodesic(csv_req.stations[item.meta.wsi], item.meta.geometry) <= DistanceThreshold
    /\ item.meta.result.present /\ item.meta.result.code = 1
    /\ item.data = Bufr4

\* C26: in the csv2bufr process a failure while handling one item yielded by
\* the converter degrades only that item: it becomes an error entry, and
\* every item the converter yields afterwards is still validated, aggregated
\* and (if eligible) published; the number of items accounted for equals the
\* number of items the converter yields.
C26_ItemFailureDegradesOnlyThatItem ==
    LoopIsEntered =>
        LET items == csv_req.items
            failing == { i \in 1..Len(items) : FailsInLoop(items[i]) }
            passing == { i \in 1..Len(items) : PassesValidation(items[i]) }
        IN  /\ ret.status = "returned"
            /\ Len(ret.outputs.errors) >= Cardinality(failing)
            /\ ret.outputs.transformed >= Cardinality(passing)
            /\ csv_req.notify =>
                   \A i \in passing : \E n \in 1..Len(ret.sent) : ret.sent[n].item = i

\* the item is of a registered station, and its geometry or the registry's is
\* None or has no coordinates
GeometryMissing(item) ==
    /\ HasProperties(item)
    /\ item.meta.wsi \in DOMAIN csv_req.stations
    /\ \/ item.meta.geometry.kind \in {"None", "nocoords"}
       \/ csv_req.stations[item.meta.wsi].kind \in {"None", "nocoords"}

\* C27: for an item of a known station where the item geometry or the
\* registry geometry is missing (None) or lacks coordinates, the distance
\* check is skipped: no distance is computed, no exception occurs, no warning
\* or error is added for that reason, and the item's payload is kept.
C27_MissingGeometrySkipsDistanceCheck ==
    (LoopIsEntered /\ csv_req.items # <<>> /\ GeometryMissing(csv_req.items[1])) =>
        LET item == csv_req.items[1] IN
        /\ ret.status = "returned"
        /\ call = "validate" =>
               /\ ~val[1].raised
               /\ \A c \in 1..Len(val[1].calls) : val[1].calls[c] # "geodesic"
               /\ val[1].item.data = item.data
               /\ val[1].item.warnings.list = ConverterWarnings(item)

\* the StorageEvent the relay builds from a record (lines 128-141)
EventOf(record) ==
    [EventName |-> WithS3Prefix(record.eventName),
     Key |-> <<record.bucket, "/">> \o ColonsDecoded(record.key)]

\* one StorageEvent, that of the last 'aws:s3' record, is published when that
\* record's bucket is allow-listed, and none when it is not
LastRecordDecides ==
    LET last == S3Records[Len(S3Records)] IN
    /\ Cardinality(PublishAttempts) <= 1
    /\ (last.bucket \in {STORAGE_INCOMING, STORAGE_PUBLIC} /\ sns_req.publishOk) =>
           /\ Len(broker) = 1
           /\ broker[1].payload = EventOf(last)
    /\ last.bucket \notin {STORAGE_INCOMING, STORAGE_PUBLIC} =>
           /\ sns_ret.code = 400
           /\ PublishAttempts = {}
           /\ broker = <<>>

\* C28: when the Records array of a verified Notification contains several
\* 'aws:s3' records, the relay publishes exactly one StorageEvent, built from
\* the last such record in array order, and the bucket allow-list check is
\* applied to that same record's bucket; earlier records produce no publish.
C28_LastS3RecordWins ==
    (IsNotification /\ ValidlySigned /\ ReadableEvent /\ Len(S3Records) >= 2) =>
        LastRecordDecides

\* ------------------------------------------------ wis2box-storage-event
\* C30: StorageEventProcessor.execute, given a 'storage_event' input,
\* attempts exactly one publish of it to 'wis2box/storage' and returns a
\* 'status' that tells a successful publish apart from a failed one: an error
\* text when the publish raised, and a value other than the initial 'unknown'
\* when it succeeded; a missing 'storage_event' raises ProcessorExecuteError
\* with no publish.
C30_StorageEventStatus ==
    call = "storage_event" =>
        /\ se.req.has =>
               /\ se.attempts = 1
               /\ se.status = "returned"
               /\ ~se.req.publishOk =>
                      /\ se.outputs.status = "Error publishing on topic=wis2box/storage"
                      /\ broker = <<>>
               /\ se.req.publishOk =>
                      /\ se.outputs.status
                             \notin {"unknown", "Error publishing on topic=wis2box/storage"}
                      /\ Len(broker) = 1
                      /\ broker[1].topic = "wis2box/storage"
                      /\ broker[1].payload = se.req.storage_event
        /\ ~se.req.has =>
               /\ se.status = "raised"
               /\ se.exc = "ProcessorExecuteError"
               /\ se.attempts = 0
               /\ broker = <<>>

====
